---- MODULE Spec2Model ----
(***************************************************************************)
(* Availability and reservation engine of Advisor_Connect.                 *)
(*                                                                         *)
(* Three versions of the BookingModal component are modelled:              *)
(*   "part_000"  src/unnamed/part_000  (advisorId prop, dateStr based)     *)
(*   "part_001"  src/unnamed/part_001  (advisorId from packageTitle)       *)
(*   "gcal"      src/adviosrConnect/src/components/BookingModal.tsx with   *)
(*               src/adviosrConnect/src/lib/googleCalendar.ts              *)
(*                                                                         *)
(* Time: an instant is an integer number of minutes since 00:00 UTC of day *)
(* 0.  A client runs in a time zone that is z minutes east of UTC, so its  *)
(* wall clock shows instant t as day (t+z) \div 1440, minute (t+z) % 1440. *)
(* Every instant the code builds lies on a whole minute (rule times are    *)
(* HH:MM, durations are whole minutes), so seconds are not modelled.       *)
(***************************************************************************)
EXTENDS Integers, Sequences, FiniteSets, TLC

VARIABLES
    q,              \* SpecGen: the inputs of one slot query
    r,              \* SpecGen: what the query produced ("none" before it ran)
    variant,        \* which version of BookingModal the clients run
    tz,             \* the clients' time zone, minutes east of UTC
    ledger,         \* table bookings, rows in insertion order
    events,         \* the events of Google calendar 'primary', in insertion order
    packageTitle,   \* per client: the packageTitle prop (duration comes with it)
    selectedDate,   \* per client: local calendar day of the selectedDate state
    selectedSlot,   \* per client: <<>> (null) or <<slot id>>
    timeSlots,      \* per client: the slot list on display
    isLoading,      \* per client
    fetches,        \* per client: the slot fetches in flight
    calls,          \* per client: the Confirm Booking handler in flight
    location,       \* per client: "modal", or the page it was redirected to
    outcomes,       \* history: how each finished Confirm Booking ended
    clicks,         \* history: number of Confirm Booking clicks so far
    navs,           \* history: number of date button clicks so far
    loop,           \* SpecLoop: the locals of one run of a slot enumeration loop
    loading,        \* per component (CallHistory, UserProfile, DashboardPage): its loading state
    pageFetch,      \* per component: where its initial fetch stands
    bookings,       \* CallHistory: the bookings state
    reviewingBookingId, \* CallHistory: <<>> (null) or <<booking id>>
    rating,         \* CallHistory: 0..5
    comment,        \* CallHistory: the text of the textarea
    submits,        \* CallHistory: the handleSubmitReview calls in flight
    advisor_reviews,    \* table advisor_reviews: the rows, by booking_id
    upserts,        \* history: the upserts the table has carried out
    submitClicks    \* history: number of Submit Review clicks so far

genVars == <<q, r>>
mainVars == <<variant, tz, ledger, events, packageTitle, selectedDate, selectedSlot, timeSlots,
              isLoading, fetches, calls, location, outcomes, clicks, navs>>
pageVars == <<loading, pageFetch>>
historyVars == <<bookings, reviewingBookingId, rating, comment, submits, advisor_reviews,
                 upserts, submitClicks>>
auxVars == <<loop, pageVars, historyVars>>
vars == <<genVars, mainVars, auxVars>>

-----------------------------------------------------------------------------
(* JavaScript Date and date-fns operations                                 *)

MinutesPerDay == 24 * 60

\* getDate()/format(d, 'yyyy-MM-dd'): the calendar day of t on a z-clock
LocalDay(t, z) == (t + z) \div MinutesPerDay

\* getHours()*60 + getMinutes() of t on a z-clock
LocalMinute(t, z) == (t + z) % MinutesPerDay

\* the instant at which a z-clock shows day d, minute-of-day hm
LocalInstant(d, hm, z) == d * MinutesPerDay + hm - z

\* Date.prototype.setHours(h, m): keeps the LOCAL calendar day of t
SetHours(t, hm, z) == LocalInstant(LocalDay(t, z), hm, z)

\* new Date('yyyy-MM-dd'): a date-only string is parsed as UTC midnight
ParseDateOnly(d) == d * MinutesPerDay

\* Date.prototype.toISOString(): UTC date and UTC time of day
ToISOString(t) == [date |-> t \div MinutesPerDay, time |-> t % MinutesPerDay]

\* new Date(isoString)
ParseISO(s) == s.date * MinutesPerDay + s.time

\* format(d, 'HH:mm'): local hours and minutes
FormatHHmm(t, z) == <<LocalMinute(t, z) \div 60, LocalMinute(t, z) % 60>>

\* 'HH:MM' column value -> parseInt(hours), parseInt(minutes) -> minute of day
ParseTime(hhmm) == hhmm[1] * 60 + hhmm[2]

WeekdayNames ==
    <<"sunday", "monday", "tuesday", "wednesday", "thursday", "friday", "saturday">>

\* format(selectedDate, 'EEEE').toLowerCase() for local calendar day d
DayOfWeek(d) == WeekdayNames[(d % 7) + 1]

-----------------------------------------------------------------------------
(* Props of the modal                                                      *)

\* packageTitle values; part_001 reads the advisor id from the title
PackageTitles ==
    { [advisor |-> "adv1", name |-> "p30"],
      [advisor |-> "adv1", name |-> "p45"],
      [advisor |-> "adv1", name |-> "p60"] }

\* the duration prop that comes with a package
PackageDuration(p) ==
    CASE p.name = "p30" -> 30
      [] p.name = "p45" -> 45
      [] p.name = "p60" -> 60

\* part_001 line 19: packageTitle.split(':')[0]
AdvisorOfTitle(p) == p.advisor

-----------------------------------------------------------------------------
(* The data store: tables advisor_availability and bookings                *)

\* .from('advisor_availability').select('*').eq('advisor_id', ..)
\*   .eq('day_of_week', ..).eq('is_active', true)
SelectAvailability(rules, advisorId, dayOfWeek) ==
    SelectSeq(rules, LAMBDA a : /\ a.advisor_id = advisorId
                                /\ a.day_of_week = dayOfWeek
                                /\ a.is_active)

\* startOfDay / endOfDay of the bookings query.
\* part_000: new Date(dateStr) for both, endOfDay.setHours(23, 59, 59).
\* part_001: new Date(selectedDate), setHours(0,0,0,0) / setHours(23,59,59,999);
\*           d is the local calendar day of the selectedDate object.
BookingsRange(impl, d, z) ==
    IF impl = "part_000"
    THEN [lo |-> ParseDateOnly(d),
          hi |-> SetHours(ParseDateOnly(d), 23 * 60 + 59, z)]
    ELSE [lo |-> LocalInstant(d, 0, z),
          hi |-> LocalInstant(d, 23 * 60 + 59, z)]

\* a bookings query that does not look at the status of a row
SelectBookingsAnyStatus(rows, advisorId, range) ==
    SelectSeq(rows, LAMBDA b : /\ b.advisor_id = advisorId
                               /\ ParseISO(b.scheduled_at) >= range.lo
                               /\ ParseISO(b.scheduled_at) <= range.hi)

\* .from('bookings').select('scheduled_at').eq('advisor_id', ..)
\*   .eq('status', 'booked').gte('scheduled_at', lo).lte('scheduled_at', hi)
SelectBookings(rows, advisorId, range) ==
    SelectSeq(rows, LAMBDA b : /\ b.advisor_id = advisorId
                               /\ b.status = "booked"
                               /\ ParseISO(b.scheduled_at) >= range.lo
                               /\ ParseISO(b.scheduled_at) <= range.hi)

\* what the store does with .from('bookings').insert(row): the row is added.
\* Nothing in the repository makes the store refuse a row.
StoreInsert(rows, row) == Append(rows, row)

-----------------------------------------------------------------------------
(* Slot generation of part_000 (fetchAvailableSlots) and part_001          *)
(* (fetchAvailability)                                                     *)

\* bookingsData?.some(b => format(new Date(b.scheduled_at), 'HH:mm') === slotTime)
IsBooked(bookingsData, slotTime, z) ==
    \E i \in 1..Len(bookingsData) :
        FormatHHmm(ParseISO(bookingsData[i].scheduled_at), z) = slotTime

\* the object pushed onto slots
MakeSlot(currentTime, bookingsData, z) ==
    [id        |-> ToISOString(currentTime),
     time      |-> FormatHHmm(currentTime, z),
     available |-> ~IsBooked(bookingsData, FormatHHmm(currentTime, z), z)]

\* a generator that leaves booked slots out instead of flagging them
PushSlotIfFree(slots, slot) == IF slot.available THEN Append(slots, slot) ELSE slots

\* a generator that drops a slot whose start is already in the list
PushSlotOnce(slots, slot) ==
    IF \E i \in 1..Len(slots) : slots[i].id = slot.id THEN slots ELSE Append(slots, slot)

\* slots.push(slot)
PushSlot(slots, slot) == Append(slots, slot)

\* a loop that runs until the cursor meets the end exactly
LoopContinuesUntilEqual(currentTime, endTime, duration) == currentTime # endTime

\* the loop guard: while (currentTime < endTime)
LoopContinues(currentTime, endTime, duration) == currentTime < endTime

\* while (currentTime < endTime) { push; currentTime += duration }
\* (duration >= 1; the loop does not end for duration = 0)
RECURSIVE SlotLoop(_, _, _, _, _, _)
SlotLoop(slots, currentTime, endTime, bookingsData, duration, z) ==
    IF LoopContinues(currentTime, endTime, duration)
    THEN SlotLoop(PushSlot(slots, MakeSlot(currentTime, bookingsData, z)),
                  currentTime + duration, endTime, bookingsData, duration, z)
    ELSE slots

\* the Date the loop starts from / ends at for a rule time 'HH:MM'.
\* part_000: new Date(dateStr).setHours(h, m); part_001: new Date(selectedDate)
\* .setHours(h, m, 0, 0), d being the local calendar day of selectedDate.
TimeOnDay(impl, d, hhmm, z) ==
    IF impl = "part_000"
    THEN SetHours(ParseDateOnly(d), ParseTime(hhmm), z)
    ELSE LocalInstant(d, ParseTime(hhmm), z)

\* availabilityData?.forEach(availability => { ... })
RECURSIVE ForEachAvailability(_, _, _, _, _, _, _)
ForEachAvailability(slots, impl, availabilityData, bookingsData, d, duration, z) ==
    IF availabilityData = <<>>
    THEN slots
    ELSE ForEachAvailability(
            SlotLoop(slots,
                     TimeOnDay(impl, d, Head(availabilityData).start_time, z),
                     TimeOnDay(impl, d, Head(availabilityData).end_time, z),
                     bookingsData, duration, z),
            impl, Tail(availabilityData), bookingsData, d, duration, z)

\* the whole successful query when nothing changes while it runs:
\* both reads and the slot computation for local calendar day d
GenerateSlots(impl, rules, rows, advisorId, d, duration, z) ==
    ForEachAvailability(<<>>, impl,
        SelectAvailability(rules, advisorId, DayOfWeek(d)),
        SelectBookings(rows, advisorId, BookingsRange(impl, d, z)),
        d, duration, z)

-----------------------------------------------------------------------------
(* GoogleCalendarService (googleCalendar.ts) and the modal that uses it    *)

\* an overlap test that also counts intervals that only touch the candidate
IsSlotAvailableInclusive(busySlots, currentTime, slotEnd) ==
    ~ \E busy \in busySlots :
        ParseISO(busy.start) <= slotEnd /\ ParseISO(busy.end) >= currentTime

\* isSlotAvailable: !busySlots.some(busy =>
\*     new Date(busy.start) < slotEnd && new Date(busy.end) > currentTime)
IsSlotAvailable(busySlots, currentTime, slotEnd) ==
    ~ \E busy \in busySlots :
        ParseISO(busy.start) < slotEnd /\ ParseISO(busy.end) > currentTime

\* if (isSlotAvailable) availableSlots.push({start, end})
PushIfAvailable(availableSlots, busySlots, currentTime, slotEnd) ==
    IF IsSlotAvailable(busySlots, currentTime, slotEnd)
    THEN Append(availableSlots,
                [start |-> ToISOString(currentTime), end |-> ToISOString(slotEnd)])
    ELSE availableSlots

\* calculateAvailableSlots: hourly candidates from startTime while
\* currentTime < endTime.  endTime is 23:59:59.999, kept here as its whole
\* minute 23:59; currentTime is always a whole minute, so currentTime < endTime
\* on instants is currentTime <= endTime on whole minutes.
\* a loop that moves the cursor on by half an hour while a slot lasts an hour
RECURSIVE CalcLoopHalfHour(_, _, _, _)
CalcLoopHalfHour(availableSlots, currentTime, endTime, busySlots) ==
    IF currentTime <= endTime
    THEN CalcLoopHalfHour(
             PushIfAvailable(availableSlots, busySlots, currentTime, currentTime + 60),
             currentTime + 30, endTime, busySlots)
    ELSE availableSlots

RECURSIVE CalcLoop(_, _, _, _)
CalcLoop(availableSlots, currentTime, endTime, busySlots) ==
    IF currentTime <= endTime
    THEN CalcLoop(PushIfAvailable(availableSlots, busySlots, currentTime, currentTime + 60),
                  currentTime + 60, endTime, busySlots)
    ELSE availableSlots

CalculateAvailableSlots(startTime, endTime, busySlots) ==
    CalcLoop(<<>>, startTime, endTime, busySlots)

\* getAvailableSlots(date), the try branch: d is the local calendar day of date
GetAvailableSlotsOk(d, busySlots, z) ==
    CalculateAvailableSlots(LocalInstant(d, 0, z), LocalInstant(d, 23 * 60 + 59, z),
                            busySlots)

\* getAvailableSlots(date), the catch branch: return []
GetAvailableSlotsCatch == <<>>

\* BookingModal.tsx fetchSlots: slots.map((slot, index) => ({ id: String(index), .. }))
MapSlots(slots, z) ==
    [i \in 1..Len(slots) |->
        [id        |-> i - 1,
         time      |-> FormatHHmm(ParseISO(slots[i].start), z),
         available |-> TRUE,
         startTime |-> slots[i].start,
         endTime   |-> slots[i].end]]

-----------------------------------------------------------------------------
(* SpecGen: one slot query, its inputs drawn from bounded sets             *)

Rule(advisorId, dayOfWeek, startTime, endTime, active) ==
    [advisor_id |-> advisorId, day_of_week |-> dayOfWeek,
     start_time |-> startTime, end_time |-> endTime, is_active |-> active]

BookingRow(customerId, advisorId, packageId, scheduledAt, status) ==
    [customer_id |-> customerId, advisor_id |-> advisorId, package_id |-> packageId,
     scheduled_at |-> ToISOString(scheduledAt), status |-> status]

\* the interval a booking row occupies: scheduled_at plus its package's duration
BookingStart(b) == ParseISO(b.scheduled_at)
BookingEnd(b) == ParseISO(b.scheduled_at) + PackageDuration(b.package_id)

\* half-open intervals [s1, e1) and [s2, e2) intersect
Overlaps(s1, e1, s2, e2) == s1 < e2 /\ s2 < e1

TzOffsets == {0 - 300, 0, 330}

\* useState(new Date()): the local calendar day the modal opens on (a Tuesday)
Today == 9

GenDays == {Today, Today + 1}

GenTitles == { p \in PackageTitles : p.name \in {"p45", "p60"} }

GenRuleTables ==
    { <<>>,
      << Rule("adv1", "tuesday", <<9, 0>>, <<10, 0>>, TRUE) >>,
      << Rule("adv1", "tuesday", <<9, 0>>, <<12, 0>>, TRUE),
         Rule("adv2", "tuesday", <<8, 0>>, <<9, 0>>, TRUE) >>,
      << Rule("adv1", "tuesday", <<9, 0>>, <<10, 0>>, TRUE),
         Rule("adv1", "tuesday", <<9, 30>>, <<11, 0>>, TRUE) >>,
      << Rule("adv1", "tuesday", <<9, 0>>, <<11, 0>>, TRUE),
         Rule("adv1", "tuesday", <<10, 0>>, <<12, 0>>, TRUE) >>,
      << Rule("adv1", "tuesday", <<9, 0>>, <<10, 0>>, FALSE),
         Rule("adv1", "wednesday", <<9, 0>>, <<10, 0>>, TRUE) >> }

\* rows the ledger snapshot of a query is drawn from
GenRows(z) ==
    { BookingRow("u1", "adv1", [advisor |-> "adv1", name |-> "p30"],
                 LocalInstant(d, hm, z), st) :
        d \in GenDays, hm \in {9 * 60, 9 * 60 + 30, 10 * 60},
        st \in {"booked", "cancelled"} }
    \cup
    { BookingRow("u1", "adv1", [advisor |-> "adv1", name |-> "p60"],
                 LocalInstant(d, hm, z), st) :
        d \in GenDays, hm \in {9 * 60, 9 * 60 + 30, 10 * 60},
        st \in {"booked", "completed"} }

\* busy intervals the calendar's freebusy answer is drawn from
GenBusy(z) ==
    { [start |-> ToISOString(LocalInstant(d, w[1], z)),
       end   |-> ToISOString(LocalInstant(d, w[2], z))] :
        d \in GenDays,
        w \in { <<11 * 60, 11 * 60 + 30>>, <<9 * 60, 10 * 60>>,
                <<10 * 60 + 30, 12 * 60>> } }

MaxGenRows == 2
MaxPick == 2        \* customers click one of the first MaxPick slot buttons
MaxGenBusy == 2

RECURSIVE SetToSeq(_)
SetToSeq(S) ==
    IF S = {} THEN <<>>
    ELSE LET x == CHOOSE y \in S : TRUE IN <<x>> \o SetToSeq(S \ {x})

RECURSIVE BoundedSubsets(_, _)
BoundedSubsets(S, n) ==
    IF n = 0 THEN {{}}
    ELSE LET P == BoundedSubsets(S, n - 1) IN P \cup { T \cup {x} : T \in P, x \in S }

NoResult ==
    [impl |-> "none", outcome |-> "none", returned |-> <<>>,
     timeSlots |-> <<>>, isLoading |-> FALSE]

GenInit ==
    /\ r = NoResult
    /\ \E z \in TzOffsets, d \in GenDays :
        \/ \E t \in GenTitles, rules \in GenRuleTables,
              rows \in BoundedSubsets(GenRows(z), MaxGenRows) :
             q = [kind |-> "ledger", z |-> z, date |-> d, packageTitle |-> t,
                  rules |-> rules, rows |-> SetToSeq(rows), busy |-> {}]
        \/ \E busy \in BoundedSubsets(GenBusy(z), MaxGenBusy) :
             q = [kind |-> "calendar", z |-> z, date |-> d,
                  packageTitle |-> [advisor |-> "adv1", name |-> "p60"],
                  rules |-> <<>>, rows |-> <<>>, busy |-> busy]

\* fetchAvailableSlots / fetchAvailability run to the end of the try block
GenFetchOk(impl) ==
    /\ q.kind = "ledger" /\ r.outcome = "none"
    /\ r' = [impl |-> impl, outcome |-> "ok", returned |-> <<>>,
             timeSlots |-> GenerateSlots(impl, q.rules, q.rows,
                                         AdvisorOfTitle(q.packageTitle), q.date,
                                         PackageDuration(q.packageTitle), q.z),
             isLoading |-> FALSE]
    /\ UNCHANGED <<auxVars, q, mainVars>>

\* availabilityError or bookingsError is thrown: catch, setTimeSlots([]), finally
GenFetchError(impl) ==
    /\ q.kind = "ledger" /\ r.outcome = "none"
    /\ r' = [impl |-> impl, outcome |-> "error", returned |-> <<>>,
             timeSlots |-> <<>>, isLoading |-> FALSE]
    /\ UNCHANGED <<auxVars, q, mainVars>>

\* BookingModal.tsx fetchSlots over getAvailableSlots, freebusy answered
GenCalendarOk ==
    /\ q.kind = "calendar" /\ r.outcome = "none"
    /\ LET slots == GetAvailableSlotsOk(q.date, q.busy, q.z) IN
         r' = [impl |-> "gcal", outcome |-> "ok", returned |-> slots,
               timeSlots |-> MapSlots(slots, q.z), isLoading |-> FALSE]
    /\ UNCHANGED <<auxVars, q, mainVars>>

\* BookingModal.tsx fetchSlots over getAvailableSlots, freebusy threw
GenCalendarError ==
    /\ q.kind = "calendar" /\ r.outcome = "none"
    /\ r' = [impl |-> "gcal", outcome |-> "error", returned |-> GetAvailableSlotsCatch,
             timeSlots |-> MapSlots(GetAvailableSlotsCatch, q.z), isLoading |-> FALSE]
    /\ UNCHANGED <<auxVars, q, mainVars>>

\* the customer clicks slot button i of the list the query produced and then
\* Confirm Booking; getSession() gives user "u2".  A store error ends in the
\* catch block, otherwise the row is in the table.
GenReserve(i, error) ==
    /\ q.kind = "ledger" /\ r.outcome = "ok"
    /\ i \in 1..Len(r.timeSlots) /\ i <= MaxPick
    /\ r.timeSlots[i].available
    /\ selectedSlot' = [selectedSlot EXCEPT !["u2"] = <<r.timeSlots[i].id>>]
    /\ IF error
       THEN /\ r' = [r EXCEPT !.outcome = "reserve failed"]
            /\ UNCHANGED ledger
       ELSE /\ r' = [r EXCEPT !.outcome = "reserved"]
            /\ ledger' = StoreInsert(ledger,
                            BookingRow("u2", AdvisorOfTitle(q.packageTitle), q.packageTitle,
                                       ParseISO(r.timeSlots[i].id), "booked"))
    /\ UNCHANGED <<auxVars, q, events, variant, tz, packageTitle, selectedDate, timeSlots, isLoading,
                   fetches, calls, location, outcomes, clicks, navs>>

GenNext ==
    \/ GenFetchOk("part_000")
    \/ GenFetchOk("part_001")
    \/ GenFetchError("part_000")
    \/ GenFetchError("part_001")
    \/ GenCalendarOk
    \/ GenCalendarError
    \/ \E i \in 1..MaxPick, error \in BOOLEAN : GenReserve(i, error)

-----------------------------------------------------------------------------
(* Claims about the slot query, checked under SpecGen                      *)

LedgerQueryDone == r.outcome = "ok" /\ r.impl \in {"part_000", "part_001"}
CalendarQueryDone == r.outcome = "ok" /\ r.impl = "gcal"

GenAdvisor == AdvisorOfTitle(q.packageTitle)
GenDuration == PackageDuration(q.packageTitle)

\* the Booked rows of the queried advisor in the ledger snapshot of the query
BookedRows ==
    { j \in 1..Len(q.rows) :
        q.rows[j].advisor_id = GenAdvisor /\ q.rows[j].status = "booked" }

\* slot i of the result, as the interval [start, start + duration)
SlotStart(i) == ParseISO(r.timeSlots[i].id)
SlotOverlapsRow(i, j) ==
    Overlaps(SlotStart(i), SlotStart(i) + GenDuration,
             BookingStart(q.rows[j]), BookingEnd(q.rows[j]))

\* C4: no slot marked available overlaps, as a half-open interval, a Booked
\* booking of the advisor in the ledger snapshot of the query.
C4_AvailableSlotsAvoidBooked ==
    LedgerQueryDone =>
        \A i \in 1..Len(r.timeSlots) :
            r.timeSlots[i].available => \A j \in BookedRows : ~SlotOverlapsRow(i, j)

\* the minutes-of-day ruleStart + k*d with ruleStart + k*d + d <= ruleEnd
ExpectedStarts(ruleStart, ruleEnd, d) ==
    [k \in 1..((ruleEnd - ruleStart) \div d) |-> ruleStart + (k - 1) * d]

RECURSIVE ExpectedStartsOfRules(_, _)
ExpectedStartsOfRules(rules, d) ==
    IF rules = <<>> THEN <<>>
    ELSE ExpectedStarts(ParseTime(Head(rules).start_time),
                        ParseTime(Head(rules).end_time), d)
         \o ExpectedStartsOfRules(Tail(rules), d)

\* C5: per rule the generator emits exactly the slots that start at
\* ruleStart + k*d with ruleStart + k*d + d <= ruleEnd (times of day of the
\* emitted slots, in rule order), so every slot ends at or before ruleEnd.
C5_SlotsFitInsideRule ==
    LedgerQueryDone =>
        [i \in 1..Len(r.timeSlots) |-> ParseTime(r.timeSlots[i].time)]
            = ExpectedStartsOfRules(
                SelectAvailability(q.rules, GenAdvisor, DayOfWeek(q.date)), GenDuration)

\* the minutes-of-day ruleStart + k*d that lie before ruleEnd, in ascending order
EnumeratedStarts(ruleStart, ruleEnd, d) ==
    [k \in 1..((ruleEnd - ruleStart + d - 1) \div d) |-> ruleStart + (k - 1) * d]

RECURSIVE EnumeratedStartsOfRules(_, _)
EnumeratedStartsOfRules(rules, d) ==
    IF rules = <<>> THEN <<>>
    ELSE EnumeratedStarts(ParseTime(Head(rules).start_time),
                          ParseTime(Head(rules).end_time), d)
         \o EnumeratedStartsOfRules(Tail(rules), d)

\* the times of day of the slots of the result, in list order
ResultTimes == [i \in 1..Len(r.timeSlots) |-> ParseTime(r.timeSlots[i].time)]

\* C16: the list is the concatenation, in rule order, of one ascending
\* enumeration per active rule of the day; nothing is merged or dropped, so
\* with overlapping rules the slots of the first rule come before those of
\* the second and a start that both rules cover is listed twice.
C16_ConcatenationInRuleOrder ==
    LedgerQueryDone =>
        ResultTimes = EnumeratedStartsOfRules(
                        SelectAvailability(q.rules, GenAdvisor, DayOfWeek(q.date)), GenDuration)

\* two overlapping rules: a start is listed twice, once per rule
C16_Witness ==
    /\ LedgerQueryDone
    /\ Len(SelectAvailability(q.rules, GenAdvisor, DayOfWeek(q.date))) = 2
    /\ \E i, k \in 1..Len(r.timeSlots) :
        /\ i < k
        /\ r.timeSlots[i].id = r.timeSlots[k].id
        /\ i <= Len(EnumeratedStarts(ParseTime(q.rules[1].start_time),
                                     ParseTime(q.rules[1].end_time), GenDuration))
        /\ k > Len(EnumeratedStarts(ParseTime(q.rules[1].start_time),
                                    ParseTime(q.rules[1].end_time), GenDuration))

\* the rows of the queried advisor that were Booked and are now Cancelled or
\* Completed
ReleasedRows ==
    { j \in 1..Len(q.rows) :
        /\ q.rows[j].advisor_id = GenAdvisor
        /\ q.rows[j].status \in {"cancelled", "completed"} }

\* C17: a Cancelled or Completed booking blocks nothing: a slot that overlaps
\* one, and no Booked booking of the advisor, is listed as available; and a
\* reserve of a listed slot that the store answers without error adds the
\* Booked row for it, whatever Cancelled or Completed rows lie on its interval.
C17_ReleasedIntervalIsFree ==
    /\ LedgerQueryDone =>
          \A i \in 1..Len(r.timeSlots) :
              (/\ \E j \in ReleasedRows : SlotOverlapsRow(i, j)
               /\ \A j \in BookedRows : ~SlotOverlapsRow(i, j))
              => r.timeSlots[i].available
    /\ r.outcome = "reserved" =>
          /\ Len(ledger) = Len(q.rows) + 1
          /\ SubSeq(ledger, 1, Len(q.rows)) = q.rows
          /\ ledger[Len(ledger)].status = "booked"
          /\ ledger[Len(ledger)].advisor_id = GenAdvisor
          /\ ledger[Len(ledger)].scheduled_at = selectedSlot["u2"][1]

\* a slot at the start of a Cancelled or Completed booking, with no Booked
\* booking on it, was listed as available and has been reserved
C17_Witness ==
    /\ r.outcome = "reserved"
    /\ \E i \in 1..Len(r.timeSlots) :
        /\ r.timeSlots[i].id = selectedSlot["u2"][1]
        /\ \E j \in ReleasedRows : BookingStart(q.rows[j]) = SlotStart(i)
        /\ \A j \in BookedRows : ~SlotOverlapsRow(i, j)
        /\ ledger[Len(ledger)].scheduled_at = r.timeSlots[i].id

\* the same query against an empty ledger
EmptyLedgerSlots == GenerateSlots(r.impl, q.rules, <<>>, GenAdvisor, q.date, GenDuration, q.z)

\* C6: bookings never remove slots: the list has the same length, order and
\* starts as with an empty ledger, and a slot's flag differs only by going
\* from available to unavailable on a slot that overlaps a Booked booking.
C6_BookingsOnlyFlagSlots ==
    LedgerQueryDone =>
        /\ Len(r.timeSlots) = Len(EmptyLedgerSlots)
        /\ \A i \in 1..Len(r.timeSlots) :
            /\ r.timeSlots[i].id = EmptyLedgerSlots[i].id
            /\ r.timeSlots[i].time = EmptyLedgerSlots[i].time
            /\ EmptyLedgerSlots[i].available
            /\ ~r.timeSlots[i].available => \E j \in BookedRows : SlotOverlapsRow(i, j)

\* a Booked booking sits at a slot start: that slot is flagged, others are not
C6_Witness ==
    /\ LedgerQueryDone
    /\ \E i, k \in 1..Len(r.timeSlots) :
        /\ ~r.timeSlots[i].available
        /\ \E j \in BookedRows : BookingStart(q.rows[j]) = SlotStart(i)
        /\ r.timeSlots[k].available

\* the hourly candidates of the queried day and whether one meets a busy interval
CandidateStart(k) == LocalInstant(q.date, 60 * k, q.z)
CandidateBusy(k) ==
    \E busy \in q.busy :
        Overlaps(CandidateStart(k), CandidateStart(k) + 60,
                 ParseISO(busy.start), ParseISO(busy.end))
ListedAt(k) ==
    { i \in 1..Len(r.timeSlots) : r.timeSlots[i].startTime = ToISOString(CandidateStart(k)) }

FreeCandidates == SelectSeq([k \in 1..24 |-> k - 1], LAMBDA k : ~CandidateBusy(k))

\* C25: calculateAvailableSlots returns, in chronological order, exactly the
\* candidates [t, t + 60) with t = day start + 60 k, t before the day's end,
\* that intersect no busy interval as half-open intervals (an interval that
\* only touches a candidate does not exclude it); no two of them overlap.
C25_ExactlyTheFreeCandidates ==
    CalendarQueryDone =>
        /\ r.returned =
             [i \in 1..Len(FreeCandidates) |->
                [start |-> ToISOString(CandidateStart(FreeCandidates[i])),
                 end   |-> ToISOString(CandidateStart(FreeCandidates[i]) + 60)]]
        /\ \A i, k \in 1..Len(r.returned) :
             i < k => ParseISO(r.returned[i].end) <= ParseISO(r.returned[k].start)

\* a busy interval ends where a returned slot starts, and another candidate
\* was left out
C25_Witness ==
    /\ CalendarQueryDone
    /\ \E busy \in q.busy, i \in 1..Len(r.returned) :
         ParseISO(busy.end) = ParseISO(r.returned[i].start)
    /\ \E busy \in q.busy, i \in 1..Len(r.returned) :
         ParseISO(busy.start) = ParseISO(r.returned[i].end)
    /\ Len(r.returned) < 24

\* the degraded flag of a query result; the result has no such field
DegradedFlag(res) == IF "degraded" \in DOMAIN res THEN res.degraded ELSE FALSE

\* C8: when the busy-interval fetch fails the query returns the slot list it
\* would return without any busy interval, with degraded = true; when the
\* fetch succeeds degraded is false.
C8_DegradedMode ==
    /\ (r.impl = "gcal" /\ r.outcome = "error") =>
            /\ r.returned = GetAvailableSlotsOk(q.date, {}, q.z)
            /\ DegradedFlag(r)
    /\ CalendarQueryDone => ~DegradedFlag(r)

\* what the caller sees after a successful query for a day without slots
EmptyDaySlots ==
    IF r.impl = "gcal"
    THEN MapSlots(GetAvailableSlotsOk(q.date,
            {[start |-> ToISOString(LocalInstant(q.date, 0, q.z)),
              end   |-> ToISOString(LocalInstant(q.date + 1, 0, q.z))]}, q.z), q.z)
    ELSE GenerateSlots(r.impl, <<>>, q.rows, GenAdvisor, q.date, GenDuration, q.z)

\* C9: a failed read is never reported as a silent empty list: what the caller
\* sees after a failure differs, by a degraded flag or an error, from what it
\* sees after a successful query for a day that has no slots.
C9_FailureIsDistinguishable ==
    r.outcome = "error" =>
        \/ DegradedFlag(r)
        \/ <<r.timeSlots, r.isLoading>> # <<EmptyDaySlots, FALSE>>

-----------------------------------------------------------------------------
(* The modal of part_000 / part_001 run by several customers against one   *)
(* data store                                                              *)

Clients == {"u1", "u2"}

\* table advisor_availability
AdvisorAvailability ==
    << Rule("adv1", "tuesday", <<9, 0>>, <<10, 0>>, TRUE),
       Rule("adv1", "wednesday", <<9, 0>>, <<10, 0>>, FALSE) >>

\* the time zones the clients are in
MainTzOffsets == TzOffsets \ {0}

\* the packages the clients book
MainTitles == { p \in PackageTitles : p.name \in {"p45", "p60"} }

MaxDayShift == 1    \* selectedDate stays within Today -+ MaxDayShift
MaxFetches == 3     \* slot fetches in flight, all clients together
MaxNavigate == 1    \* date button clicks in a run
MaxReserve == 2     \* Confirm Booking clicks in a run

\* the advisorId the modal uses: a prop in part_000, read from the title in part_001
AdvisorId(c) == IF variant = "part_000" THEN "adv1" ELSE AdvisorOfTitle(packageTitle[c])

Duration(c) == PackageDuration(packageTitle[c])

\* user: <<>> or <<id of session.user>>; slot: <<slot id>>, in gcal <<startTime, endTime>>
NoCall == [stage |-> "idle", slot |-> <<>>, user |-> <<>>, raced |-> FALSE]

\* the fetch an effect run starts for the selectedDate object showing day d.
\* dayOfWeek is computed before the first await.  day is what later reads of
\* the date give: part_000 keeps dateStr, a string; part_001 keeps the Date
\* object itself, which the next date button click mutates in place (live).
NewFetch(d) ==
    [stage |-> IF variant = "gcal" THEN "freebusy" ELSE "availability",
     dayOfWeek |-> DayOfWeek(d), day |-> d,
     live |-> (variant = "part_001"), rangeDay |-> d]

\* the page is left: the component and its pending callbacks are gone
Unloaded(c, page) ==
    /\ location' = [location EXCEPT ![c] = page]
    /\ selectedDate' = [selectedDate EXCEPT ![c] = Today]
    /\ selectedSlot' = [selectedSlot EXCEPT ![c] = <<>>]
    /\ timeSlots' = [timeSlots EXCEPT ![c] = <<>>]
    /\ isLoading' = [isLoading EXCEPT ![c] = FALSE]
    /\ fetches' = [fetches EXCEPT ![c] = {}]

MainInit ==
    /\ variant \in {"part_000", "part_001", "gcal"}
    /\ tz \in MainTzOffsets
    /\ ledger = <<>>
    /\ events = <<>>
    /\ packageTitle \in [Clients -> MainTitles]
    /\ selectedDate = [c \in Clients |-> Today]
    /\ selectedSlot = [c \in Clients |-> <<>>]
    /\ timeSlots = [c \in Clients |-> <<>>]
    /\ isLoading = [c \in Clients |-> variant # "gcal"]
    /\ fetches = [c \in Clients |-> {NewFetch(Today)}]
    /\ calls = [c \in Clients |-> NoCall]
    /\ location = [c \in Clients |-> "modal"]
    /\ outcomes = {}
    /\ clicks = 0
    /\ navs = 0

RECURSIVE SumOver(_, _)
SumOver(f, S) ==
    IF S = {} THEN 0
    ELSE LET x == CHOOSE y \in S : TRUE IN f[x] + SumOver(f, S \ {x})

\* number of slot fetches in flight
InFlight == SumOver([c \in Clients |-> Cardinality(fetches[c])], Clients)

\* the date buttons: setSelectedDate(new Date(selectedDate.setDate(getDate() -+ 1))).
\* setDate changes the current Date object in place, so a part_001 fetch that
\* holds it reads the new day from then on; the new state is another object,
\* and the effect runs again for it.
NavigateDate(c, delta) ==
    /\ location[c] = "modal"
    /\ selectedDate[c] + delta \in (Today - MaxDayShift)..(Today + MaxDayShift)
    /\ InFlight < MaxFetches
    /\ navs < MaxNavigate
    /\ navs' = navs + 1
    /\ selectedDate' = [selectedDate EXCEPT ![c] = @ + delta]
    /\ isLoading' = [isLoading EXCEPT ![c] = (variant # "gcal")]
    /\ fetches' = [fetches EXCEPT ![c] =
            { IF f.live THEN [f EXCEPT !.day = selectedDate[c] + delta, !.live = FALSE]
                        ELSE f : f \in @ }
            \cup {NewFetch(selectedDate[c] + delta)}]
    /\ UNCHANGED <<auxVars, q, r, events, variant, tz, ledger, packageTitle, selectedSlot, timeSlots, calls,
                   location, outcomes, clicks>>

\* catch: setTimeSlots([]); finally: setIsLoading(false)
FetchCatch(c, f) ==
    /\ timeSlots' = [timeSlots EXCEPT ![c] = <<>>]
    /\ isLoading' = [isLoading EXCEPT ![c] = FALSE]
    /\ fetches' = [fetches EXCEPT ![c] = @ \ {f}]

\* the availability query answers: an error is thrown into catch; otherwise
\* startOfDay / endOfDay are computed and the bookings query is sent
AvailabilityResolved(c, f, error) ==
    /\ location[c] = "modal"
    /\ f \in fetches[c] /\ f.stage = "availability"
    /\ IF error
       THEN FetchCatch(c, f)
       ELSE /\ fetches' = [fetches EXCEPT ![c] =
                    (@ \ {f}) \cup {[f EXCEPT !.stage = "bookings", !.rangeDay = f.day]}]
            /\ UNCHANGED <<timeSlots, isLoading>>
    /\ UNCHANGED <<auxVars, q, r, events, variant, tz, ledger, packageTitle, selectedDate, selectedSlot, calls,
                   location, outcomes, clicks, navs>>

\* the slots a fetch builds from the two query results
FetchedSlots(c, f) ==
    ForEachAvailability(<<>>, variant,
        SelectAvailability(AdvisorAvailability, AdvisorId(c), f.dayOfWeek),
        SelectBookings(ledger, AdvisorId(c), BookingsRange(variant, f.rangeDay, tz)),
        f.day, Duration(c), tz)

\* a fetch that, having built the list, holds its first available slot by
\* inserting a pending row for it
BookingsResolvedWithHold(c, f, error) ==
    /\ location[c] = "modal"
    /\ f \in fetches[c] /\ f.stage = "bookings"
    /\ IF error
       THEN FetchCatch(c, f) /\ UNCHANGED ledger
       ELSE /\ timeSlots' = [timeSlots EXCEPT ![c] = FetchedSlots(c, f)]
            /\ isLoading' = [isLoading EXCEPT ![c] = FALSE]
            /\ fetches' = [fetches EXCEPT ![c] = @ \ {f}]
            /\ LET free == { i \in 1..Len(FetchedSlots(c, f)) : FetchedSlots(c, f)[i].available } IN
                 IF free = {} THEN UNCHANGED ledger
                 ELSE ledger' = Append(ledger,
                        [customer_id |-> c, advisor_id |-> AdvisorId(c),
                         package_id |-> packageTitle[c],
                         scheduled_at |-> FetchedSlots(c, f)[CHOOSE i \in free : TRUE].id,
                         status |-> "pending"])
    /\ UNCHANGED <<auxVars, q, r, events, variant, tz, packageTitle, selectedDate, selectedSlot, calls,
                   location, outcomes, clicks, navs>>

\* the bookings query answers: an error is thrown into catch; otherwise the
\* slots are built, setTimeSlots(slots), finally setIsLoading(false)
BookingsResolved(c, f, error) ==
    /\ location[c] = "modal"
    /\ f \in fetches[c] /\ f.stage = "bookings"
    /\ IF error
       THEN FetchCatch(c, f)
       ELSE /\ timeSlots' = [timeSlots EXCEPT ![c] = FetchedSlots(c, f)]
            /\ isLoading' = [isLoading EXCEPT ![c] = FALSE]
            /\ fetches' = [fetches EXCEPT ![c] = @ \ {f}]
    /\ UNCHANGED <<auxVars, q, r, events, variant, tz, ledger, packageTitle, selectedDate, selectedSlot, calls,
                   location, outcomes, clicks, navs>>

\* freebusy.query on 'primary' for [timeMin, timeMax]: the intervals of the
\* events that meet the range
FreeBusy(evts, timeMin, timeMax) ==
    { [start |-> evts[i].start, end |-> evts[i].end] :
        i \in { j \in 1..Len(evts) :
                  ParseISO(evts[j].start) <= timeMax /\ ParseISO(evts[j].end) >= timeMin } }

\* gcal: getAvailableSlots answers and fetchSlots calls setTimeSlots.  When
\* freebusy.query threw, getAvailableSlots returned [].
FreebusyResolved(c, f, error) ==
    /\ location[c] = "modal"
    /\ f \in fetches[c] /\ f.stage = "freebusy"
    /\ timeSlots' = [timeSlots EXCEPT ![c] =
            MapSlots(IF error THEN GetAvailableSlotsCatch
                     ELSE GetAvailableSlotsOk(f.day,
                              FreeBusy(events, LocalInstant(f.day, 0, tz),
                                       LocalInstant(f.day, 23 * 60 + 59, tz)), tz),
                     tz)]
    /\ fetches' = [fetches EXCEPT ![c] = @ \ {f}]
    /\ UNCHANGED <<auxVars, q, r, events, variant, tz, ledger, packageTitle, selectedDate, selectedSlot,
                   isLoading, calls, location, outcomes, clicks, navs>>

\* the slot buttons are on screen: part_000 shows them only when not loading
SlotButtonsShown(c) == variant = "part_000" => ~isLoading[c]

\* a slot button: disabled={!slot.available}, onClick setSelectedSlot(slot.id)
SelectSlot(c, i) ==
    /\ location[c] = "modal"
    /\ SlotButtonsShown(c)
    /\ i \in 1..Len(timeSlots[c])
    /\ i <= MaxPick
    /\ timeSlots[c][i].available
    /\ selectedSlot' = [selectedSlot EXCEPT ![c] = <<timeSlots[c][i].id>>]
    /\ UNCHANGED <<auxVars, q, r, events, variant, tz, ledger, packageTitle, selectedDate, timeSlots, isLoading,
                   fetches, calls, location, outcomes, clicks, navs>>

\* Confirm Booking, disabled={!selectedSlot}: the handler starts with the
\* selectedSlot of the current render and awaits getSession()
ConfirmBooking(c) ==
    /\ variant # "gcal"
    /\ location[c] = "modal"
    /\ selectedSlot[c] # <<>>
    /\ calls[c].stage = "idle"
    /\ clicks < MaxReserve
    /\ calls' = [calls EXCEPT ![c] =
                    [stage |-> "session", slot |-> selectedSlot[c], user |-> <<>>,
                     raced |-> FALSE]]
    /\ clicks' = clicks + 1
    /\ UNCHANGED <<auxVars, q, r, events, variant, tz, ledger, packageTitle, selectedDate, selectedSlot, timeSlots,
                   isLoading, fetches, location, outcomes, navs>>

\* part_000: selectedSlot.split('T'), new Date(dateStr + 'T' + timeStr);
\* part_001: new Date(selectedSlot); then scheduledAt.toISOString()
ScheduledAt(slot) == ToISOString(ParseISO(slot[1]))

\* the user signed in at client c
SessionUser(c) == c

\* what the handler shows and what the store had answered, kept in outcomes
Outcome(c, result, error, alert) ==
    [customer |-> c, scheduled_at |-> ScheduledAt(calls[c].slot), result |-> result,
     raced |-> calls[c].raced, error |-> error, alert |-> alert]

\* getSession() answers.  Without a user: location.href = '/login', return.
\* With a user the insert is sent.
SessionResolved(c, hasUser) ==
    /\ location[c] = "modal"
    /\ calls[c].stage = "session"
    /\ IF hasUser
       THEN /\ calls' = [calls EXCEPT ![c].stage = "insert",
                                      ![c].user = <<SessionUser(c)>>]
            /\ UNCHANGED <<location, selectedDate, selectedSlot, timeSlots, isLoading,
                           fetches, outcomes>>
       ELSE /\ calls' = [calls EXCEPT ![c] = NoCall]
            /\ outcomes' = outcomes \cup {Outcome(c, "login", "none", "none")}
            /\ Unloaded(c, "/login")
    /\ UNCHANGED <<auxVars, q, r, events, variant, tz, ledger, packageTitle, clicks, navs>>

\* a row whose customer_id is taken from the advisor instead of the session
InsertedRowOfAdvisor(c) ==
    [customer_id |-> AdvisorId(c), advisor_id |-> AdvisorId(c),
     package_id |-> packageTitle[c],
     scheduled_at |-> ScheduledAt(calls[c].slot), status |-> "booked"]

\* the row handleBooking inserts
InsertedRow(c) ==
    [customer_id |-> calls[c].user[1], advisor_id |-> AdvisorId(c),
     package_id |-> packageTitle[c],
     scheduled_at |-> ScheduledAt(calls[c].slot), status |-> "booked"]

\* the other client d has a Confirm in flight for the same advisor and an
\* interval that overlaps the one client c books
RacesWith(c, d) ==
    /\ d # c
    /\ calls[d].stage # "idle"
    /\ AdvisorId(d) = AdvisorId(c)
    /\ Overlaps(ParseISO(calls[c].slot[1]), ParseISO(calls[c].slot[1]) + Duration(c),
                ParseISO(calls[d].slot[1]), ParseISO(calls[d].slot[1]) + Duration(d))

\* a Booked booking of the advisor of client c is in the ledger on an interval
\* that overlaps the one the Confirm of c asks for
OverlappingBookedExists(c) ==
    \E i \in 1..Len(ledger) :
        /\ ledger[i].advisor_id = AdvisorId(c)
        /\ ledger[i].status = "booked"
        /\ Overlaps(BookingStart(ledger[i]), BookingEnd(ledger[i]),
                    ParseISO(calls[c].slot[1]), ParseISO(calls[c].slot[1]) + Duration(c))

\* the errors an insert can answer with: the row was refused as a duplicate
\* (a store that has such a constraint can refuse only when an overlapping
\* row is there), or the store could not be reached
StoreErrors == {"conflict", "infrastructure"}

\* the catch block of handleBooking: one message for every error
FailureAlert(error) == "Failed to create booking. Please try again."

\* an insert that has written the row and then answers with an error
InsertFailedAfterWrite(c, error) ==
    /\ location[c] = "modal"
    /\ calls[c].stage = "insert"
    /\ error = "conflict" => OverlappingBookedExists(c)
    /\ ledger' = StoreInsert(ledger, InsertedRow(c))
    /\ calls' = [calls EXCEPT ![c] = NoCall]
    /\ outcomes' = outcomes \cup {Outcome(c, "failed", error, FailureAlert(error))}
    /\ UNCHANGED <<auxVars, q, r, events, variant, tz, packageTitle, selectedDate, selectedSlot, timeSlots,
                   isLoading, fetches, location, clicks, navs>>

\* the insert answers with an error: throw, catch, alert('Failed to create booking')
InsertFailed(c, error) ==
    /\ location[c] = "modal"
    /\ calls[c].stage = "insert"
    /\ error = "conflict" => OverlappingBookedExists(c)
    /\ calls' = [calls EXCEPT ![c] = NoCall]
    /\ outcomes' = outcomes \cup {Outcome(c, "failed", error, FailureAlert(error))}
    /\ UNCHANGED <<auxVars, q, r, events, variant, tz, ledger, packageTitle, selectedDate, selectedSlot, timeSlots,
                   isLoading, fetches, location, clicks, navs>>

\* the insert answers without error: alert('Booking confirmed successfully!'),
\* location.href = '/dashboard'
InsertSucceeded(c) ==
    /\ location[c] = "modal"
    /\ calls[c].stage = "insert"
    /\ ledger' = StoreInsert(ledger, InsertedRow(c))
    /\ calls' = [d \in Clients |->
                    IF d = c THEN NoCall
                    ELSE IF RacesWith(c, d) THEN [calls[d] EXCEPT !.raced = TRUE]
                    ELSE calls[d]]
    /\ outcomes' = outcomes \cup
         {Outcome(c, "confirmed", "none", "Booking confirmed successfully!")}
    /\ Unloaded(c, "/dashboard")
    /\ UNCHANGED <<auxVars, q, r, events, variant, tz, packageTitle, clicks, navs>>

\* gcal, Confirm Booking: timeSlots.find(s => s.id === selectedSlot) on the
\* list of the current render; without a match the handler returns, with one
\* createBooking(slot.startTime, slot.endTime, ..) is sent
ConfirmCalendarBooking(c) ==
    /\ variant = "gcal"
    /\ location[c] = "modal"
    /\ selectedSlot[c] # <<>>
    /\ calls[c].stage = "idle"
    /\ clicks < MaxReserve
    /\ clicks' = clicks + 1
    /\ LET found == { i \in 1..Len(timeSlots[c]) : timeSlots[c][i].id = selectedSlot[c][1] } IN
         IF found = {}
         THEN UNCHANGED calls
         ELSE LET slot == timeSlots[c][CHOOSE i \in found : TRUE] IN
                calls' = [calls EXCEPT ![c] =
                            [stage |-> "events.insert",
                             slot |-> <<slot.startTime, slot.endTime>>,
                             user |-> <<>>, raced |-> FALSE]]
    /\ UNCHANGED <<auxVars, q, r, events, variant, tz, ledger, packageTitle, selectedDate, selectedSlot,
                   timeSlots, isLoading, fetches, location, outcomes, navs>>

\* the event createBooking asks calendar.events.insert to add
InsertedEvent(c) ==
    [summary |-> packageTitle[c], description |-> Duration(c),
     start |-> calls[c].slot[1], end |-> calls[c].slot[2]]

\* calendar.events.insert on 'primary': the event is added
EventsInsert(evts, event) == Append(evts, event)

\* a createBooking whose catch logs the error and does not rethrow it: the
\* handler goes on to onClose() and the success alert
CreateBookingSwallowed(c) ==
    /\ location[c] = "modal"
    /\ calls[c].stage = "events.insert"
    /\ calls' = [calls EXCEPT ![c] = NoCall]
    /\ outcomes' = outcomes \cup
         {Outcome(c, "confirmed", "infrastructure", "Booking confirmed successfully!")}
    /\ Unloaded(c, "closed")
    /\ UNCHANGED <<auxVars, q, r, events, variant, tz, ledger, packageTitle, clicks, navs>>

\* events.insert threw: createBooking logs and rethrows, the handler's catch
\* shows alert('Failed to confirm booking. Please try again.')
CreateBookingFailed(c) ==
    /\ location[c] = "modal"
    /\ calls[c].stage = "events.insert"
    /\ calls' = [calls EXCEPT ![c] = NoCall]
    /\ outcomes' = outcomes \cup
         {Outcome(c, "failed", "infrastructure", "Failed to confirm booking. Please try again.")}
    /\ UNCHANGED <<auxVars, q, r, events, variant, tz, ledger, packageTitle, selectedDate, selectedSlot,
                   timeSlots, isLoading, fetches, location, clicks, navs>>

\* events.insert answered: onClose(), alert('Booking confirmed successfully!')
CreateBookingSucceeded(c) ==
    /\ location[c] = "modal"
    /\ calls[c].stage = "events.insert"
    /\ events' = EventsInsert(events, InsertedEvent(c))
    /\ calls' = [calls EXCEPT ![c] = NoCall]
    /\ outcomes' = outcomes \cup
         {Outcome(c, "confirmed", "none", "Booking confirmed successfully!")}
    /\ Unloaded(c, "closed")
    /\ UNCHANGED <<auxVars, q, r, variant, tz, ledger, packageTitle, clicks, navs>>

MainNext ==
    \E c \in Clients :
        \/ \E delta \in {0 - 1, 1} : NavigateDate(c, delta)
        \/ \E f \in fetches[c], error \in BOOLEAN : AvailabilityResolved(c, f, error)
        \/ \E f \in fetches[c], error \in BOOLEAN : BookingsResolved(c, f, error)
        \/ \E i \in 1..Len(timeSlots[c]) : SelectSlot(c, i)
        \/ ConfirmBooking(c)
        \/ \E hasUser \in BOOLEAN : SessionResolved(c, hasUser)
        \/ \E error \in StoreErrors : InsertFailed(c, error)
        \/ InsertSucceeded(c)
        \/ \E f \in fetches[c], error \in BOOLEAN : FreebusyResolved(c, f, error)
        \/ ConfirmCalendarBooking(c)
        \/ CreateBookingFailed(c)
        \/ CreateBookingSucceeded(c)

\* no enumeration loop is being stepped
NoLoop == [impl |-> "none"]

\* the components that load data when they are mounted
Components == {"CallHistory", "UserProfile", "DashboardPage"}

\* useState(true) for loading; the effect has not run yet
PagesInit ==
    /\ loading = [p \in Components |-> TRUE]
    /\ pageFetch = [p \in Components |-> "unmounted"]

\* CallHistory as constructed; nobody has written a review
HistoryInit ==
    /\ bookings = <<>>
    /\ reviewingBookingId = <<>>
    /\ rating = 0
    /\ comment = ""
    /\ submits = {}
    /\ advisor_reviews = {}
    /\ upserts = <<>>
    /\ submitClicks = 0

\* the specifications of the modal leave the other components as constructed
AuxInit == loop = NoLoop /\ PagesInit /\ HistoryInit

Init == MainInit /\ q = [kind |-> "none"] /\ r = NoResult /\ AuxInit

Spec == Init /\ [][MainNext]_vars

\* every request that was sent is answered: getSession, the bookings insert
\* and events.insert each resolve or reject
RequestsAreAnswered ==
    \A c \in Clients :
        /\ WF_vars(\E hasUser \in BOOLEAN : SessionResolved(c, hasUser))
        /\ WF_vars(InsertSucceeded(c) \/ \E error \in StoreErrors : InsertFailed(c, error))
        /\ WF_vars(CreateBookingSucceeded(c) \/ CreateBookingFailed(c))

SpecLive == Init /\ [][MainNext]_vars /\ RequestsAreAnswered

\* SpecGen leaves the modal state as it is after construction
InitGen ==
    /\ GenInit
    /\ variant = "part_000" /\ tz = 0 /\ ledger = q.rows /\ events = <<>>
    /\ packageTitle = [c \in Clients |-> [advisor |-> "adv1", name |-> "p60"]]
    /\ selectedDate = [c \in Clients |-> Today]
    /\ selectedSlot = [c \in Clients |-> <<>>]
    /\ timeSlots = [c \in Clients |-> <<>>]
    /\ isLoading = [c \in Clients |-> FALSE]
    /\ fetches = [c \in Clients |-> {}]
    /\ calls = [c \in Clients |-> NoCall]
    /\ location = [c \in Clients |-> "modal"]
    /\ outcomes = {} /\ clicks = 0 /\ navs = 0
    /\ AuxInit

SpecGen == InitGen /\ [][GenNext]_vars

-----------------------------------------------------------------------------
(* Claims about reservations, checked under Spec                           *)

\* after the step, the Confirm Booking that client c had in flight is on
\* record as having ended with this result
Reported(c, result) ==
    \E o \in outcomes' :
        /\ o.customer = c /\ o.result = result
        /\ o.scheduled_at = ScheduledAt(calls[c].slot)

\* C1: of the Confirm Booking writes that run concurrently for one advisor and
\* overlapping intervals exactly one creates a Booking: a write that was in
\* flight when an overlapping one was committed (raced) does not succeed.
C1_MutualExclusion ==
    \A o \in outcomes : o.raced => o.result # "confirmed"

\* C2: no two Booked bookings of one advisor in the ledger have overlapping
\* intervals [scheduledAt, scheduledAt + duration).
C2_LedgerNonOverlap ==
    \A i, j \in 1..Len(ledger) :
        (/\ i < j
         /\ ledger[i].advisor_id = ledger[j].advisor_id
         /\ ledger[i].status = "booked" /\ ledger[j].status = "booked")
        => ~Overlaps(BookingStart(ledger[i]), BookingEnd(ledger[i]),
                     BookingStart(ledger[j]), BookingEnd(ledger[j]))

\* the active rules of an advisor for the weekday on which instant t falls
RulesAt(advisorId, t) ==
    { i \in 1..Len(AdvisorAvailability) :
        /\ AdvisorAvailability[i].advisor_id = advisorId
        /\ AdvisorAvailability[i].is_active
        /\ AdvisorAvailability[i].day_of_week = DayOfWeek(LocalDay(t, tz)) }

\* [from, to) lies inside an active rule window of the advisor for that day
InsideRuleWindow(advisorId, from, to) ==
    \E i \in RulesAt(advisorId, from) :
        /\ ParseTime(AdvisorAvailability[i].start_time) <= LocalMinute(from, tz)
        /\ LocalMinute(from, tz) + (to - from) <= ParseTime(AdvisorAvailability[i].end_time)

\* instant t falls within an active rule window of the advisor for that day
StartInRuleWindow(advisorId, t) ==
    \E i \in RulesAt(advisorId, t) :
        /\ ParseTime(AdvisorAvailability[i].start_time) <= LocalMinute(t, tz)
        /\ LocalMinute(t, tz) < ParseTime(AdvisorAvailability[i].end_time)

\* C3: every Booking in the ledger lies inside an active availability window
\* of its advisor for its day of week.
C3_BookingsInsideWindow ==
    \A i \in 1..Len(ledger) :
        InsideRuleWindow(ledger[i].advisor_id, BookingStart(ledger[i]), BookingEnd(ledger[i]))

\* C10: a reserve whose slotStart is outside every active rule window of the
\* advisor for that day ends with an error reported and the ledger unchanged
\* (the failure alert is the only error report the handler has).
C10_ValidatesBeforeWrite ==
    [][\A c \in Clients :
          (/\ calls[c].stage = "insert"
           /\ calls'[c].stage # "insert"
           /\ ~StartInRuleWindow(AdvisorId(c), ParseISO(calls[c].slot[1])))
          => /\ ledger' = ledger
             /\ Reported(c, "failed")]_vars

\* C11: the write of a reserve looks at the ledger again: when an overlapping
\* Booked booking of the advisor is in the ledger as the write runs, the
\* reserve ends with a failure reported and the ledger is left as it was.
C11_RecheckAtWriteTime ==
    [][\A c \in Clients :
          (/\ calls[c].stage = "insert"
           /\ calls'[c].stage # "insert"
           /\ OverlappingBookedExists(c))
          => /\ ledger' = ledger
             /\ Reported(c, "failed")]_vars

\* C12: an insert that the store refuses as a duplicate or overlapping
\* (advisor, interval) is reported as a conflict, with a message that differs
\* from the one shown when the store could not be reached.
C12_ConflictIsDistinguishable ==
    \A o \in outcomes :
        o.error = "conflict" => o.alert # FailureAlert("infrastructure")

\* C13: a calendar event is created only after the Booking it mirrors has been
\* committed: every event of the calendar has a Booked row of the ledger with
\* the same start.
C13_EventOnlyAfterCommit ==
    \A i \in 1..Len(events) :
        \E j \in 1..Len(ledger) :
            /\ ledger[j].status = "booked"
            /\ ledger[j].scheduled_at = events[i].start

\* C14: when the calendar insert of a Confirm fails, the ledger is left as it
\* is and the customer is still told that the booking succeeded (the failure
\* is at most a warning), not that the reservation failed.
C14_PublishFailureIsNotFatal ==
    [][\A c \in Clients :
          (/\ calls[c].stage = "events.insert"
           /\ calls'[c].stage # "events.insert"
           /\ events' = events)
          => /\ ledger' = ledger
             /\ Reported(c, "confirmed")]_vars

\* the write of the Confirm Booking of client c is answered in this step
WriteAnswered(c) ==
    /\ calls[c].stage \in {"insert", "events.insert"}
    /\ calls'[c].stage # calls[c].stage

\* the step adds a row to the ledger or an event to the calendar
Written == Len(ledger') + Len(events') = Len(ledger) + Len(events) + 1

\* C18: no error is swallowed on the write path: when the ledger insert or
\* the calendar insert of a Confirm Booking fails, the Confirm ends with the
\* failure reported and no success reported; success is reported only in a
\* step in which the row or the event was written.
C18_NoSwallowedWriteError ==
    [][/\ \A c \in Clients :
            (WriteAnswered(c) /\ ~Written)
            => /\ Reported(c, "failed")
               /\ \A o \in outcomes' \ outcomes : o.result # "confirmed"
       /\ (\E o \in outcomes' \ outcomes : o.result = "confirmed") => Written]_vars

\* a write has failed and was reported as a failure, with its error kept
C18_Witness ==
    \E o \in outcomes :
        /\ o.result = "failed" /\ o.error # "none"
        /\ o.alert \in {"Failed to create booking. Please try again.",
                        "Failed to confirm booking. Please try again."}

\* C19: the current user is looked up before the write and becomes the
\* customer of the booking: the ledger changes only by the insert of a
\* Confirm whose session lookup gave a user, the new row carries that user's
\* id as customer_id, and a Confirm whose lookup gave no user ends without
\* a write.
C19_CurrentUserIsCustomer ==
    [][/\ ledger' # ledger =>
            \E c \in Clients :
                /\ calls[c].stage = "insert"
                /\ calls[c].user = <<SessionUser(c)>>
                /\ Len(ledger') = Len(ledger) + 1
                /\ SubSeq(ledger', 1, Len(ledger)) = ledger
                /\ ledger'[Len(ledger')].customer_id = SessionUser(c)
                /\ ledger'[Len(ledger')].scheduled_at = ScheduledAt(calls[c].slot)
       /\ \A c \in Clients :
            (calls[c].stage = "session" /\ calls'[c].stage = "idle")
            => /\ ledger' = ledger
               /\ Reported(c, "login")
               /\ location'[c] = "/login"]_vars

\* one Confirm found no user and was sent to /login, another found its user
\* and its row is in the ledger
C19_Witness ==
    /\ \E o \in outcomes : o.result = "login"
    /\ \E i \in 1..Len(ledger) :
         /\ ledger[i].customer_id \in Clients
         /\ \E o \in outcomes : o.result = "confirmed" /\ o.customer = ledger[i].customer_id

\* C20: a slot query only reads: a step of a query (it starts, one of its
\* requests is answered with data or with an error, or it is superseded by
\* the next one), whatever other queries and Confirms are in flight, leaves
\* the ledger and the calendar as they are.
C20_QueryIsReadOnly ==
    [][(fetches' # fetches /\ calls' = calls /\ outcomes' = outcomes)
       => (ledger' = ledger /\ events' = events)]_vars

\* queries have run, to a list and to an error, while a Confirm of another
\* client was in flight, and neither the ledger nor the calendar has changed
C20_Witness ==
    /\ ledger = <<>> /\ events = <<>>
    /\ \E c, d \in Clients :
        /\ c # d
        /\ fetches[c] = {} /\ timeSlots[c] # <<>> /\ calls[c].stage # "idle"
        /\ fetches[d] = {} /\ timeSlots[d] = <<>> /\ location[d] = "modal"

ListIsForDate(c, d) ==
    IF variant = "gcal"
    THEN \A i \in 1..Len(timeSlots[c]) :
            LocalDay(ParseISO(timeSlots[c][i].startTime), tz) = d
    ELSE \/ timeSlots[c] = <<>>
         \/ [i \in 1..Len(timeSlots[c]) |-> timeSlots[c][i].id]
            = [i \in 1..Len(GenerateSlots(variant, AdvisorAvailability, <<>>, AdvisorId(c),
                                          d, Duration(c), tz)) |->
                 GenerateSlots(variant, AdvisorAvailability, <<>>, AdvisorId(c),
                               d, Duration(c), tz)[i].id]

\* C22: once every slot fetch of a modal has completed, the list on display
\* is the one computed for the selected date: the result of a fetch started
\* for an earlier date does not replace that of the fetch for the latest one.
C22_LatestDateWins ==
    \A c \in Clients :
        (location[c] = "modal" /\ fetches[c] = {}) => ListIsForDate(c, selectedDate[c])

\* the slot selected at client c is on the list on display, as available
SelectionIsListed(c) ==
    \E i \in 1..Len(timeSlots[c]) :
        /\ timeSlots[c][i].id = selectedSlot[c][1]
        /\ timeSlots[c][i].available

\* C23: a Confirm Booking click that starts a write finds the selected slot on
\* the list on display for the selected date, marked available: a selection
\* made against an earlier list or date is not booked.
C23_SelectionIsOnDisplay ==
    [][\A c \in Clients :
          (calls[c].stage = "idle" /\ calls'[c].stage # "idle")
          => /\ SelectionIsListed(c)
             /\ ListIsForDate(c, selectedDate[c])]_vars

-----------------------------------------------------------------------------
(* SpecLoop: one run of a slot enumeration loop, stepped iteration by       *)
(* iteration                                                               *)

\* the rule windows (minutes of day) and the durations a run is drawn from
LoopWindows == { <<9 * 60, 10 * 60>>, <<9 * 60, 9 * 60 + 1>>, <<9 * 60 + 30, 11 * 60>> }
LoopDurations == {0, 1, 30, 45, 60}

MaxIterations == 100    \* iterations of one run that are followed

\* the modal as constructed, with nothing in flight
ModalIdle ==
    /\ q = [kind |-> "none"] /\ r = NoResult
    /\ variant = "part_000" /\ tz = 0 /\ ledger = <<>> /\ events = <<>>
    /\ packageTitle = [c \in Clients |-> [advisor |-> "adv1", name |-> "p60"]]
    /\ selectedDate = [c \in Clients |-> Today]
    /\ selectedSlot = [c \in Clients |-> <<>>]
    /\ timeSlots = [c \in Clients |-> <<>>]
    /\ isLoading = [c \in Clients |-> FALSE]
    /\ fetches = [c \in Clients |-> {}]
    /\ calls = [c \in Clients |-> NoCall]
    /\ location = [c \in Clients |-> "modal"]
    /\ outcomes = {} /\ clicks = 0 /\ navs = 0

\* the locals when the loop is entered: part_000 / part_001 for one rule and
\* the duration prop, calculateAvailableSlots for one day (step 60, endTime
\* 23:59:59.999 kept as its whole minute)
LoopEntered(impl, startTime, endTime, duration) ==
    [impl |-> impl, startTime |-> startTime, endTime |-> endTime, duration |-> duration,
     currentTime |-> startTime, slots |-> <<>>, iterations |-> 0, done |-> FALSE]

InitLoop ==
    /\ ModalIdle /\ PagesInit /\ HistoryInit
    /\ \/ \E impl \in {"part_000", "part_001"}, w \in LoopWindows, d \in LoopDurations :
            loop = LoopEntered(impl, LocalInstant(Today, w[1], 0),
                               LocalInstant(Today, w[2], 0), d)
       \/ loop = LoopEntered("gcal", LocalInstant(Today, 0, 0),
                             LocalInstant(Today, 23 * 60 + 59, 0), 60)

\* the loop guard, evaluated on the current locals
LoopGuard ==
    IF loop.impl = "gcal" THEN loop.currentTime <= loop.endTime
    ELSE LoopContinues(loop.currentTime, loop.endTime, loop.duration)

\* one iteration: the slot is pushed, then
\* currentTime.setMinutes(currentTime.getMinutes() + duration), or
\* currentTime = slotEnd in calculateAvailableSlots
LoopStep ==
    /\ loop.impl # "none" /\ ~loop.done
    /\ LoopGuard
    /\ loop.iterations < MaxIterations
    /\ loop' = [loop EXCEPT
                  !.slots = IF loop.impl = "gcal"
                            THEN PushIfAvailable(@, {}, loop.currentTime, loop.currentTime + 60)
                            ELSE PushSlot(@, MakeSlot(loop.currentTime, <<>>, 0)),
                  !.currentTime = @ + loop.duration,
                  !.iterations = @ + 1]
    /\ UNCHANGED <<genVars, mainVars, pageVars, historyVars>>

\* the guard is false: the loop is left
LoopExit ==
    /\ loop.impl # "none" /\ ~loop.done
    /\ ~LoopGuard
    /\ loop' = [loop EXCEPT !.done = TRUE]
    /\ UNCHANGED <<genVars, mainVars, pageVars, historyVars>>

NextLoop == LoopStep \/ LoopExit

\* the thread that runs the loop keeps running
SpecLoop == InitLoop /\ [][NextLoop]_vars /\ WF_vars(NextLoop)

\* the starts of the slots the run has pushed so far
LoopStarts ==
    [i \in 1..Len(loop.slots) |->
        IF loop.impl = "gcal" THEN ParseISO(loop.slots[i].start)
        ELSE ParseISO(loop.slots[i].id)]

\* C24: the enumeration loop ends for every window with start < end and every
\* duration of at least one minute: an iteration moves the cursor on by
\* exactly the duration, the starts pushed are strictly increasing and there
\* are at most ceil((end - start) / duration) of them; with duration 0 the
\* cursor does not move and the loop is never left.
C24_LoopTerminates ==
    /\ (loop.duration >= 1) ~> loop.done
    /\ [](loop.duration = 0 => ~loop.done /\ loop.currentTime = loop.startTime)
    /\ [][loop'.iterations # loop.iterations
            => /\ loop'.iterations = loop.iterations + 1
               /\ loop'.currentTime = loop.currentTime + loop.duration]_vars
    /\ [](loop.duration >= 1 =>
            /\ \A i, k \in 1..Len(LoopStarts) : i < k => LoopStarts[i] < LoopStarts[k]
            /\ Len(loop.slots) <= (loop.endTime - loop.startTime + loop.duration - 1)
                                      \div loop.duration)

\* a run with 45 minutes on a 90 minute window has ended after two slots
C24_Witness ==
    /\ loop.impl \in {"part_000", "part_001"}
    /\ loop.duration = 45 /\ loop.endTime - loop.startTime = 90
    /\ loop.done
    /\ Len(loop.slots) = 2

-----------------------------------------------------------------------------
(* SpecPages: the initial fetch of CallHistory (fetchBookings), UserProfile *)
(* (fetchUserData) and DashboardPage (fetchBookmarkedAdvisors)             *)

\* the customer whose session the components find
HistoryUser == "u1"

\* the rows of table bookings of that customer that lie in the past
PastBookings ==
    << [id |-> "b1", status |-> "completed", advisor_id |-> "adv1"],
       [id |-> "b2", status |-> "completed", advisor_id |-> "adv1"],
       [id |-> "b3", status |-> "cancelled", advisor_id |-> "adv1"] >>

\* the review the query joins to a booking row: advisor_reviews?.[0]
ReviewOf(rows, id) ==
    IF \E x \in rows : x.booking_id = id
    THEN LET x == CHOOSE y \in rows : y.booking_id = id IN
           <<[rating |-> x.rating, comment |-> x.comment]>>
    ELSE <<>>

\* formattedBookings: id, status, advisor.id, review (<<>> is undefined)
FormattedBookings(rows, reviews) ==
    [i \in 1..Len(rows) |->
        [id |-> rows[i].id, status |-> rows[i].status, advisor |-> rows[i].advisor_id,
         review |-> ReviewOf(reviews, rows[i].id)]]

\* the queries a component sends after getSession(), in order
QueriesOf(p) ==
    IF p = "CallHistory" THEN <<"bookings">>
    ELSE IF p = "UserProfile" THEN <<"users">>
    ELSE <<"advisor_bookmarks", "advisor_reviews">>

\* the fetch of component p is over: the async function has returned
FetchFinished(p) ==
    pageFetch[p] \in {"no session", "query error", "query threw", "loaded"}

\* useEffect(() => { fetch..(); }, []): the function awaits getSession()
Mount(p) ==
    /\ pageFetch[p] = "unmounted"
    /\ pageFetch' = [pageFetch EXCEPT ![p] = "getSession"]
    /\ UNCHANGED <<loading, loop, genVars, mainVars, historyVars>>

\* getSession() answers: if (!session?.user) return; stands before the try
\* block (CallHistory, DashboardPage) or in a function without one
\* (UserProfile), so nothing else runs; otherwise the first query is sent
PageSessionResolved(p, hasUser) ==
    /\ pageFetch[p] = "getSession"
    /\ pageFetch' = [pageFetch EXCEPT ![p] = IF hasUser THEN QueriesOf(p)[1] ELSE "no session"]
    /\ UNCHANGED <<loading, loop, genVars, mainVars, historyVars>>

\* what the code that follows a query does with loading when the query
\* answers with { error }: CallHistory returns inside try (finally runs),
\* DashboardPage throws into catch (finally runs), UserProfile returns
LoadingAfterQueryError(p) == IF p = "UserProfile" THEN loading[p] ELSE FALSE

\* what happens to loading when the awaited query rejects: CallHistory and
\* DashboardPage have catch / finally, UserProfile has no try block
LoadingAfterQueryThrew(p) == IF p = "UserProfile" THEN loading[p] ELSE FALSE

\* a query of component p answers: with data (the next query is sent, or the
\* state is set and loading becomes false), with { error }, or by rejecting
PageQueryResolved(p, answer) ==
    /\ \E i \in 1..Len(QueriesOf(p)) :
        /\ pageFetch[p] = QueriesOf(p)[i]
        /\ IF answer = "data"
           THEN IF i < Len(QueriesOf(p))
                THEN /\ pageFetch' = [pageFetch EXCEPT ![p] = QueriesOf(p)[i + 1]]
                     /\ UNCHANGED loading
                ELSE /\ pageFetch' = [pageFetch EXCEPT ![p] = "loaded"]
                     /\ loading' = [loading EXCEPT ![p] = FALSE]
           ELSE IF answer = "error"
           THEN /\ pageFetch' = [pageFetch EXCEPT ![p] = "query error"]
                /\ loading' = [loading EXCEPT ![p] = LoadingAfterQueryError(p)]
           ELSE /\ pageFetch' = [pageFetch EXCEPT ![p] = "query threw"]
                /\ loading' = [loading EXCEPT ![p] = LoadingAfterQueryThrew(p)]
    /\ bookings' = IF p = "CallHistory" /\ answer = "data"
                   THEN FormattedBookings(PastBookings, advisor_reviews)
                   ELSE bookings
    /\ UNCHANGED <<loop, genVars, mainVars, reviewingBookingId, rating, comment, submits,
                   advisor_reviews, upserts, submitClicks>>

NextPages ==
    \E p \in Components :
        \/ Mount(p)
        \/ \E hasUser \in BOOLEAN : PageSessionResolved(p, hasUser)
        \/ \E answer \in {"data", "error", "threw"} : PageQueryResolved(p, answer)

InitPages == ModalIdle /\ loop = NoLoop /\ PagesInit /\ HistoryInit

SpecPages == InitPages /\ [][NextPages]_vars

\* C26: once the initial fetch of a component has finished, on whatever path
\* (data, query error, no signed-in session), its loading flag is false.
C26_LoadingEnds ==
    \A p \in Components : FetchFinished(p) => ~loading[p]

(***************************************************************************)
(* CallHistory: the review form.  The list has been loaded for the         *)
(* signed-in customer; the cards of completed bookings without a review    *)
(* offer "Rate this consultation", the card under review shows the form.   *)
(***************************************************************************)

\* the stars of the form: [1, 2, 3, 4, 5].map(star => ... setRating(star))
Stars == 1..5

\* what the customer types into the textarea
Comments == {"", "great"}

\* Submit Review is clicked at most this often
MaxSubmits == 2

BookingIds == {PastBookings[i].id : i \in 1..Len(PastBookings)}

\* bookings.find(b => b.id === bookingId): <<>> is undefined
FindBooking(list, bookingId) ==
    IF \E i \in 1..Len(list) : list[i].id = bookingId
    THEN <<list[CHOOSE i \in 1..Len(list) : list[i].id = bookingId]>>
    ELSE <<>>

\* the card shows the button "Rate this consultation"
RateButtonShown(b) ==
    b.status = "completed" /\ b.review = <<>> /\ reviewingBookingId # <<b.id>>

\* the card shows the review form
FormShown(b) == reviewingBookingId = <<b.id>>

\* the list is rendered: not loading and not empty
ListRendered == ~loading["CallHistory"] /\ Len(bookings) > 0

\* onClick of "Rate this consultation": setReviewingBookingId(booking.id)
RateThisConsultation(i) ==
    /\ ListRendered /\ i \in 1..Len(bookings)
    /\ RateButtonShown(bookings[i])
    /\ reviewingBookingId' = <<bookings[i].id>>
    /\ UNCHANGED <<bookings, rating, comment, submits, advisor_reviews, upserts,
                   submitClicks, loop, pageVars, genVars, mainVars>>

\* onClick of a star: setRating(star)
SetRating(i, star) ==
    /\ ListRendered /\ i \in 1..Len(bookings)
    /\ FormShown(bookings[i])
    /\ rating' = star
    /\ UNCHANGED <<bookings, reviewingBookingId, comment, submits, advisor_reviews,
                   upserts, submitClicks, loop, pageVars, genVars, mainVars>>

\* onChange of the textarea: setComment(e.target.value)
SetComment(i, text) ==
    /\ ListRendered /\ i \in 1..Len(bookings)
    /\ FormShown(bookings[i])
    /\ comment' = text
    /\ UNCHANGED <<bookings, reviewingBookingId, rating, submits, advisor_reviews,
                   upserts, submitClicks, loop, pageVars, genVars, mainVars>>

\* onClick of Cancel: the three setters
CancelReview(i) ==
    /\ ListRendered /\ i \in 1..Len(bookings)
    /\ FormShown(bookings[i])
    /\ reviewingBookingId' = <<>>
    /\ rating' = 0
    /\ comment' = ""
    /\ UNCHANGED <<bookings, submits, advisor_reviews, upserts, submitClicks,
                   loop, pageVars, genVars, mainVars>>

\* onClick of Submit Review (disabled={!rating}): handleSubmitReview(booking.id)
\* starts and awaits getSession(); the call holds the rating, comment and
\* bookings of the render that was clicked
SubmitReview(i) ==
    /\ ListRendered /\ i \in 1..Len(bookings)
    /\ FormShown(bookings[i])
    /\ rating # 0
    /\ submitClicks < MaxSubmits
    /\ submitClicks' = submitClicks + 1
    /\ submits' = submits \cup
          {[n |-> submitClicks + 1, bookingId |-> bookings[i].id, stage |-> "getSession",
            user |-> <<>>, rating |-> rating, comment |-> comment, bookings |-> bookings]}
    /\ UNCHANGED <<bookings, reviewingBookingId, rating, comment, advisor_reviews,
                   upserts, loop, pageVars, genVars, mainVars>>

\* handleSubmitReview after getSession(): no user or no such booking returns,
\* otherwise the upsert is sent
SubmitSessionResolved(h, hasUser) ==
    /\ h \in submits /\ h.stage = "getSession"
    /\ submits' = IF hasUser /\ FindBooking(h.bookings, h.bookingId) # <<>>
                  THEN (submits \ {h}) \cup
                       {[h EXCEPT !.stage = "upsert", !.user = <<HistoryUser>>]}
                  ELSE submits \ {h}
    /\ UNCHANGED <<bookings, reviewingBookingId, rating, comment, advisor_reviews,
                   upserts, submitClicks, loop, pageVars, genVars, mainVars>>

\* the row handleSubmitReview hands to upsert
ReviewRow(h) ==
    [advisor_id |-> FindBooking(h.bookings, h.bookingId)[1].advisor,
     customer_id |-> h.user[1],
     rating |-> h.rating,
     comment |-> h.comment,
     booking_id |-> h.bookingId]

\* onConflict: 'advisor_id,customer_id,booking_id'
SameReviewKey(x, y) ==
    x.advisor_id = y.advisor_id /\ x.customer_id = y.customer_id
    /\ x.booking_id = y.booking_id

\* upsert: the row replaces the row of the same key, if there is one
Upsert(rows, row) == {x \in rows : ~SameReviewKey(x, row)} \cup {row}

\* bookings.map(b => b.id === bookingId ? {...b, review: {rating, comment}} : b)
WithReview(list, bookingId, stars, text) ==
    [i \in 1..Len(list) |->
        IF list[i].id = bookingId
        THEN [list[i] EXCEPT !.review = <<[rating |-> stars, comment |-> text]>>]
        ELSE list[i]]

\* what the upsert history records of a write
UpsertRecord(h) ==
    [row |-> ReviewRow(h),
     status |-> FindBooking(h.bookings, h.bookingId)[1].status,
     existed |-> \E x \in advisor_reviews : x.booking_id = h.bookingId]

\* the local state after a successful upsert
BookingsAfterUpsert(h) == WithReview(h.bookings, h.bookingId, h.rating, h.comment)

\* handleSubmitReview after the upsert: an error is thrown and logged, success
\* updates the local list and closes the form
UpsertResolved(h, error) ==
    /\ h \in submits /\ h.stage = "upsert"
    /\ submits' = submits \ {h}
    /\ IF error
       THEN UNCHANGED <<bookings, reviewingBookingId, rating, comment, advisor_reviews,
                        upserts>>
       ELSE /\ advisor_reviews' = Upsert(advisor_reviews, ReviewRow(h))
            /\ upserts' = Append(upserts, UpsertRecord(h))
            /\ bookings' = BookingsAfterUpsert(h)
            /\ reviewingBookingId' = <<>>
            /\ rating' = 0
            /\ comment' = ""
    /\ UNCHANGED <<submitClicks, loop, pageVars, genVars, mainVars>>

NextHistory ==
    \/ \E i \in 1..Len(PastBookings) : RateThisConsultation(i)
    \/ \E i \in 1..Len(PastBookings), star \in Stars : SetRating(i, star)
    \/ \E i \in 1..Len(PastBookings), text \in Comments : SetComment(i, text)
    \/ \E i \in 1..Len(PastBookings) : CancelReview(i)
    \/ \E i \in 1..Len(PastBookings) : SubmitReview(i)
    \/ \E h \in submits, hasUser \in BOOLEAN : SubmitSessionResolved(h, hasUser)
    \/ \E h \in submits, error \in BOOLEAN : UpsertResolved(h, error)

\* CallHistory after fetchBookings has loaded the list; nothing else is mounted
InitHistory ==
    /\ ModalIdle /\ loop = NoLoop
    /\ loading = [p \in Components |-> p # "CallHistory"]
    /\ pageFetch = [p \in Components |->
                      IF p = "CallHistory" THEN "loaded" ELSE "unmounted"]
    /\ bookings = FormattedBookings(PastBookings, {})
    /\ reviewingBookingId = <<>>
    /\ rating = 0
    /\ comment = ""
    /\ submits = {}
    /\ advisor_reviews = {}
    /\ upserts = <<>>
    /\ submitClicks = 0

SpecHistory == InitHistory /\ [][NextHistory]_vars

\* C27: whenever the review form opens for a booking (reviewingBookingId
\* changes to that booking's id), the rating is 0 and the comment is empty, so
\* what was entered for one booking is never shown in the form of another.
C27_FormOpensBlank ==
    [][(reviewingBookingId' # reviewingBookingId /\ reviewingBookingId' # <<>>)
       => (rating' = 0 /\ comment' = "")]_vars

\* C28: every review the table writes is for a completed booking of the
\* signed-in customer that has no review yet, with a rating from 1 to 5, also
\* when Submit Review is clicked again before the first upsert has answered; a
\* failed upsert leaves bookings, reviewingBookingId, rating and comment alone.
C28_ReviewOnlyOnce ==
    [][/\ Len(upserts') > Len(upserts) =>
            LET u == upserts'[Len(upserts')] IN
              /\ u.row.customer_id = HistoryUser
              /\ u.status = "completed"
              /\ ~u.existed
              /\ u.row.rating \in 1..5
       /\ (upserts' = upserts /\ \E h \in submits : h.stage = "upsert" /\ h \notin submits')
            => UNCHANGED <<bookings, reviewingBookingId, rating, comment>>]_vars

====
